---- MODULE Spec2Model ----
(***************************************************************************)
(* Model of core/admin/mailu/models.py: the per-domain DKIM key lifecycle  *)
(* (Domain.dkim_key getter/setter, generate_dkim_key, the after_commit     *)
(* listener store_dkim_key) and the address resolution engine              *)
(* (Email.resolve_destination, Alias.resolve).                             *)
(***************************************************************************)
EXTENDS Integers, Sequences, FiniteSets, TLC

(***************************************************************************)
(* Bounds of the model.                                                    *)
(***************************************************************************)
NumSessions == 2
NumDomains == 2
NumKeys == 2
MaxLen == 2
MaxAliases == 2
MaxUserLen == 1
MaxForward == 4
MaxAddrLen == 3
MaxNameLen == 1
MaxAlternatives == 1
MaxIds == 2
MaxItems == 2

Sessions == 1..NumSessions
Domains == 1..NumDomains
\* non-empty key material (bytes objects), numbered
Keys == 1..NumKeys

(***************************************************************************)
(* Values.  Key bytes are numbers: Empty is b'', None is Python's None,    *)
(* NoFile says that the key file of a domain does not exist.               *)
(***************************************************************************)
None == -1
Empty == 0
NoFile == -2

\* Python truthiness of a value held in _dkim_key (None and b'' are falsy)
Truthy(v) == v # None /\ v # Empty

VARIABLES
    file,       \* file[d]: content of the key file of domain d, or NoFile
    key,        \* key[s][d]: Domain._dkim_key of session s's object for d
    changed,    \* changed[s][d]: Domain._dkim_key_changed of that object
    hist,       \* history: hist[s] the latest assignments and commits of session s
    io,         \* history: writes and unlinks performed by the latest operation
    failed,     \* history: failed[s] the domains whose flush failed and is still pending
    committed,  \* history: committed[d] the key of the latest committed assignment to d
    window      \* history: how many operations hist keeps, 0 for no history at all

keyVars == <<file, key, changed, hist, io, failed, committed, window>>

\* the store the resolution engine reads, and its latest call
VARIABLES
    aliases,    \* the rows of table alias
    users,      \* the User objects of the session (rows of table user)
    userTable,  \* the rows of table user as the database holds them
    alternatives, \* the rows of table alternative
    items,      \* MailuCollection._items: the instances of the collection, keyed by identity
    call,       \* the call that has returned and whose result is in `result`
    result      \* what that call returned

resVars == <<aliases, users, userTable, alternatives, items, call, result>>

(***************************************************************************)
(* History of a session: its last `window` key assignments and commits.    *)
(***************************************************************************)
Op(name, d, v) == [op |-> name, d |-> d, v |-> v]

Remember(h, o) ==
    IF window = 0 THEN h
    ELSE IF Len(h) < window THEN Append(h, o)
    ELSE Append(Tail(h), o)

Last(h) == h[Len(h)]

\* hist[s] holds an assignment to the key of d that no commit of s has followed
Pending(s, d) ==
    \E i \in 1..Len(hist[s]) :
        /\ hist[s][i].op \in {"setKey", "generateKey"}
        /\ hist[s][i].d = d
        /\ \A j \in (i + 1)..Len(hist[s]) : hist[s][j].op \notin {"commit", "commitFail"}

\* the transaction of s commits: its pending assignments become the latest
CommittedAfter(s) ==
    [d \in Domains |-> IF Pending(s, d) THEN key[s][d] ELSE committed[d]]

(***************************************************************************)
(* Domain.dkim_key (getter): loads the key from the file on first access.  *)
(***************************************************************************)
\* the key the file store holds for d, as the getter reads it (no file: b'')
Persisted(d) == IF file[d] = NoFile THEN Empty ELSE file[d]

\* the value of _dkim_key after the getter has run
LoadedKey(s, d) ==
    IF key[s][d] = None
    THEN IF file[d] # NoFile THEN file[d] ELSE Empty
    ELSE key[s][d]

\* the value the getter returns
dkim_key(s, d) == IF Truthy(LoadedKey(s, d)) THEN LoadedKey(s, d) ELSE None

GetKey(s, d) ==
    /\ key' = [key EXCEPT ![s][d] = LoadedKey(s, d)]
    /\ io' = {}
    /\ UNCHANGED <<file, changed, hist, failed, committed, window, resVars>>

(***************************************************************************)
(* Domain.dkim_key (setter).                                               *)
(***************************************************************************)
\* value = b'' if value is None
SetterValue(v) == IF v = None THEN Empty ELSE v

\* a setter that never marks a cleared key as changed
SetterChangedNoClear(s, d, v) == Truthy(v) /\ SetterValue(v) # dkim_key(s, d)

\* self._dkim_key_changed = value != old_key
SetterChanged(s, d, v) == SetterValue(v) # dkim_key(s, d)

Assign(s, d, v, name) ==
    /\ key' = [key EXCEPT ![s][d] = SetterValue(v)]
    /\ changed' = [changed EXCEPT ![s][d] = SetterChanged(s, d, v)]
    /\ hist' = [hist EXCEPT ![s] = Remember(@, Op(name, d, v))]
    /\ io' = {}
    /\ failed' = [failed EXCEPT ![s] = @ \ {d}]
    /\ UNCHANGED <<file, committed, window, resVars>>

SetKey(s, d, v) == Assign(s, d, v, "setKey")

\* Domain.generate_dkim_key: self.dkim_key = dkim.gen_key(), a fresh key
GenerateKey(s, d, k) ==
    /\ k # LoadedKey(s, d)
    /\ Assign(s, d, k, "generateKey")

(***************************************************************************)
(* store_dkim_key, the after_commit listener.                              *)
(***************************************************************************)
\* the handler touches the file of d: the object is changed and either holds
\* a key (open/write) or holds none while the file exists (unlink)
Writes(s, d) == changed[s][d] /\ Truthy(key[s][d])
Unlinks(s, d) == changed[s][d] /\ ~Truthy(key[s][d]) /\ file[d] # NoFile

\* a handler that flushes every object, changed or not
FlushedFileAlways(s, d) == IF Truthy(key[s][d]) THEN key[s][d] ELSE NoFile

\* content of the file of d once the handler has handled d without error
FlushedFile(s, d) ==
    IF Writes(s, d) THEN key[s][d]
    ELSE IF Unlinks(s, d) THEN NoFile
    ELSE file[d]

\* the file operation the handler performs for d
IoOf(s, d, ok) ==
    IF Writes(s, d) THEN {[s |-> s, d |-> d, kind |-> "write", ok |-> ok]}
    ELSE IF Unlinks(s, d) THEN {[s |-> s, d |-> d, kind |-> "unlink", ok |-> ok]}
    ELSE {}

\* a handler that resets the flag of every object it looks at
ChangedCleared(s, d) == FALSE

\* _dkim_key_changed of an object after the handler: never assigned by it
ChangedAfterCommit(s, d) == changed[s][d]

\* every file operation succeeds
Commit(s) ==
    /\ UNCHANGED <<key, window, resVars>>
    /\ file' = [d \in Domains |-> FlushedFile(s, d)]
    /\ changed' = [changed EXCEPT ![s] = [d \in Domains |-> ChangedAfterCommit(s, d)]]
    /\ io' = UNION {IoOf(s, d, TRUE) : d \in Domains}
    /\ hist' = [hist EXCEPT ![s] = Remember(@, Op("commit", 0, 0))]
    /\ committed' = CommittedAfter(s)
    /\ failed' = [failed EXCEPT ![s] = {}]

\* what a failed operation leaves of the file of d: open() or unlink() raised
\* (file untouched), or write() raised after open() truncated the file
FailedFile(s, d) ==
    IF Writes(s, d) THEN {file[d], Empty} ELSE {file[d]}

\* the objects the loop over session.identity_map.values() reaches before the
\* object of f: the map keeps its order, the domains are numbered in it
Before(f) == {d \in Domains : d < f}

\* the file operation on f raises: the objects before f are flushed, the
\* exception ends the loop and the objects after f are never reached
CommitIOError(s, f) ==
    /\ Writes(s, f) \/ Unlinks(s, f)
    /\ UNCHANGED <<key, window, resVars>>
    /\ \E left \in FailedFile(s, f) :
          file' = [d \in Domains |->
                     IF d = f THEN left
                     ELSE IF d \in Before(f) THEN FlushedFile(s, d)
                     ELSE file[d]]
    /\ changed' = [changed EXCEPT ![s] =
                     [d \in Domains |->
                        IF d = f \/ d \in Before(f) THEN ChangedAfterCommit(s, d)
                        ELSE changed[s][d]]]
    /\ io' = IoOf(s, f, FALSE) \cup UNION {IoOf(s, d, TRUE) : d \in Before(f)}
    /\ hist' = [hist EXCEPT ![s] = Remember(@, Op("commitFail", f, 0))]
    /\ committed' = CommittedAfter(s)
    /\ failed' = [failed EXCEPT ![s] = (@ \ Before(f)) \cup {f}]

(***************************************************************************)
(* Address resolution.  A localpart is a sequence of characters; NoneLp is  *)
(* Python's None where a localpart is expected.                            *)
(***************************************************************************)
Chars == {"a", "A", "+", "%"}
Localparts == UNION {[1..n -> Chars] : n \in 1..MaxLen}
NoneLp == <<"None">>

\* os.environ.get('RECIPIENT_DELIMITER')
Delimiter == "+"

\* str.lower()
LowerChar(c) == IF c = "A" THEN "a" ELSE c
Lower(lp) == [i \in 1..Len(lp) |-> LowerChar(lp[i])]

\* an address localpart@domain_name; domain 0 is outside the served domains
Addr(lp, dom) == [lp |-> lp, dom |-> dom]

NoAlias == [localpart |-> NoneLp, domain_name |-> 0, wildcard |-> FALSE, destination |-> <<>>]
NoUser == [localpart |-> NoneLp, domain_name |-> 0, forward_enabled |-> FALSE,
           forward_keep |-> FALSE, forward_destination |-> <<>>]
NoCall == [fn |-> "none", localpart |-> NoneLp, domain_name |-> 0, ignore_forward_keep |-> FALSE]

\* return values: None, a destination list, an Alias
ReturnNone == [none |-> TRUE, dest |-> <<>>, alias |-> NoAlias]
ReturnDest(dest) == [none |-> FALSE, dest |-> dest, alias |-> NoAlias]
ReturnAlias(a) == IF a = NoAlias THEN ReturnNone ELSE [none |-> FALSE, dest |-> <<>>, alias |-> a]

\* SQL: value LIKE pattern ('%' any run of characters, '_' any one character)
RECURSIVE Like(_, _)
Like(str, pat) ==
    IF pat = <<>> THEN str = <<>>
    ELSE IF Head(pat) = "%"
         THEN Like(str, Tail(pat)) \/ (str # <<>> /\ Like(Tail(str), pat))
         ELSE /\ str # <<>>
              /\ Head(pat) = "_" \/ Head(pat) = Head(str)
              /\ Like(Tail(str), Tail(pat))

\* bindparam('l', value).like(pattern): NULL LIKE pattern is not true
BindLike(value, pat) == value # NoneLp /\ Like(value, pat)

(***************************************************************************)
(* Alias.resolve                                                           *)
(***************************************************************************)
\* the filter term `cls.wildcard is False`: Python's identity test of the
\* column attribute against False, evaluated when the query is built
WildcardIsFalse(a) == FALSE

\* the filter term `cls.wildcard is True`
WildcardIsTrue(a) == FALSE

\* rows selected by the case-preserving query
PreserveCaseRows(localpart, domain_name) ==
    {a \in aliases :
        /\ a.domain_name = domain_name
        /\ \/ WildcardIsFalse(a) /\ a.localpart = localpart
           \/ WildcardIsTrue(a) /\ BindLike(localpart, a.localpart)}

\* localpart_lower = localpart.lower() if localpart else None
LocalpartLower(localpart) ==
    IF localpart = NoneLp \/ localpart = <<>> THEN NoneLp ELSE Lower(localpart)

\* rows selected by the lower-case query
LowerCaseRows(localpart, domain_name) ==
    {a \in aliases :
        /\ a.domain_name = domain_name
        /\ \/ WildcardIsFalse(a) /\ Lower(a.localpart) = LocalpartLower(localpart)
           \/ WildcardIsTrue(a) /\ BindLike(LocalpartLower(localpart), Lower(a.localpart))}

\* order_by(cls.wildcard, char_length(cls.localpart).desc()): a sorts no later than b
SortsBefore(a, b) ==
    \/ ~a.wildcard /\ b.wildcard
    \/ a.wildcard = b.wildcard /\ Len(a.localpart) >= Len(b.localpart)

\* .first(): the rows the database may return first, None for no row
First(rows) ==
    IF rows = {} THEN {NoAlias}
    ELSE {a \in rows : \A b \in rows : SortsBefore(a, b)}

\* the final selection between the two query results
MergeAliases(alias_preserve_case, alias_lower_case) ==
    IF alias_preserve_case # NoAlias /\ alias_lower_case # NoAlias
    THEN IF alias_preserve_case.wildcard THEN alias_lower_case ELSE alias_preserve_case
    ELSE IF alias_preserve_case # NoAlias THEN alias_preserve_case
    ELSE IF alias_lower_case # NoAlias THEN alias_lower_case
    ELSE NoAlias

\* the aliases Alias.resolve(localpart, domain_name) may return
AliasResolve(localpart, domain_name) ==
    {MergeAliases(p, l) : p \in First(PreserveCaseRows(localpart, domain_name)),
                          l \in First(LowerCaseRows(localpart, domain_name))}

Resolve(localpart, domain_name) ==
    /\ call = NoCall
    /\ \E a \in AliasResolve(localpart, domain_name) : result' = ReturnAlias(a)
    /\ call' = [fn |-> "Alias.resolve", localpart |-> localpart,
                domain_name |-> domain_name, ignore_forward_keep |-> FALSE]
    /\ UNCHANGED <<aliases, users, userTable, alternatives, items, keyVars>>

(***************************************************************************)
(* Email.resolve_destination                                               *)
(***************************************************************************)
HasDelimiter(localpart) == \E i \in 1..Len(localpart) : localpart[i] = Delimiter

\* localpart.rsplit(delimiter, 1)[0]: what precedes the last delimiter
RSplitHead(localpart) ==
    LET last == CHOOSE i \in 1..Len(localpart) :
                    /\ localpart[i] = Delimiter
                    /\ \A j \in (i + 1)..Len(localpart) : localpart[j] # Delimiter
    IN  SubSeq(localpart, 1, last - 1)

LocalpartStripped(localpart) ==
    IF HasDelimiter(localpart) THEN RSplitHead(localpart) ELSE NoneLp

\* User.query.get(f'{localpart}@{domain_name}')
UserGet(localpart, domain_name) ==
    IF \E u \in users : u.localpart = localpart /\ u.domain_name = domain_name
    THEN CHOOSE u \in users : u.localpart = localpart /\ u.domain_name = domain_name
    ELSE NoUser

\* the user found for the address or, failing that, for the stripped address
FindUser(localpart, domain_name) ==
    LET stripped == LocalpartStripped(localpart)
        user == UserGet(localpart, domain_name)
    IN  IF user = NoUser /\ stripped # NoneLp /\ stripped # <<>>
        THEN UserGet(stripped, domain_name)
        ELSE user

\* the list the user branch returns; with forwarding enabled it is the
\* user's own forward_destination list, appended to in place
UserDestination(user, localpart, domain_name, ignore_forward_keep) ==
    IF user.forward_enabled
    THEN IF user.forward_keep \/ ignore_forward_keep
         THEN Append(user.forward_destination, Addr(localpart, domain_name))
         ELSE user.forward_destination
    ELSE <<Addr(localpart, domain_name)>>

\* the precedence between the alias of the address and that of the stripped one
AliasDestination(pure_alias, stripped_alias) ==
    IF pure_alias # NoAlias /\ ~pure_alias.wildcard THEN ReturnDest(pure_alias.destination)
    ELSE IF stripped_alias # NoAlias THEN ReturnDest(stripped_alias.destination)
    ELSE IF pure_alias # NoAlias THEN ReturnDest(pure_alias.destination)
    ELSE ReturnNone

ResolveDestination(localpart, domain_name, ignore_forward_keep) ==
    /\ call = NoCall
    \* bound of the model: the list of a user is appended to MaxForward times at most
    /\ Len(FindUser(localpart, domain_name).forward_destination) < MaxForward
    /\ call' = [fn |-> "resolve_destination", localpart |-> localpart,
                domain_name |-> domain_name, ignore_forward_keep |-> ignore_forward_keep]
    /\ LET user == FindUser(localpart, domain_name)
       IN  IF user # NoUser
           THEN LET dest == UserDestination(user, localpart, domain_name, ignore_forward_keep)
                IN  /\ result' = ReturnDest(dest)
                    /\ users' = IF user.forward_enabled
                                THEN (users \ {user}) \cup
                                        {[user EXCEPT !.forward_destination = dest]}
                                ELSE users
           ELSE /\ \E pure_alias \in AliasResolve(localpart, domain_name) :
                   \E stripped_alias \in
                        AliasResolve(LocalpartStripped(localpart), domain_name) :
                      result' = AliasDestination(pure_alias, stripped_alias)
                /\ users' = users
    /\ UNCHANGED <<aliases, userTable, alternatives, items, keyVars>>

\* the caller takes the result
Return ==
    /\ call # NoCall
    /\ call' = NoCall
    /\ result' = ReturnNone
    /\ UNCHANGED <<aliases, users, userTable, alternatives, items, keyVars>>

(***************************************************************************)
(* Email.resolve_domain.  An address is a sequence of characters, a domain  *)
(* name a non-empty sequence without "@".                                  *)
(***************************************************************************)
AddrChars == {"a", "A", "b", "@"}
RawAddresses == UNION {[1..n -> AddrChars] : n \in 1..MaxAddrLen}

\* '@' in email
HasAt(email) == \E i \in 1..Len(email) : email[i] = "@"

\* position of the first "@"
FirstAt(email) ==
    CHOOSE i \in 1..Len(email) :
        email[i] = "@" /\ \A j \in 1..(i - 1) : email[j] # "@"

\* email.rsplit('@', 1): position of the last "@"
LastAt(email) ==
    CHOOSE i \in 1..Len(email) :
        email[i] = "@" /\ \A j \in (i + 1)..Len(email) : email[j] # "@"

\* localpart, domain_name = email.rsplit('@', 1) if '@' in email else (None, email)
SplitLocalpart(email) ==
    IF HasAt(email) THEN SubSeq(email, 1, LastAt(email) - 1) ELSE NoneLp

\* a split at the first "@" instead of the last
SplitDomainFirst(email) ==
    IF HasAt(email) THEN SubSeq(email, FirstAt(email) + 1, Len(email)) ELSE email

SplitDomain(email) ==
    IF HasAt(email) THEN SubSeq(email, LastAt(email) + 1, Len(email)) ELSE email

\* IdnaDomain.process_bind_param: the key is bound as value.lower()
IdnaBind(name) == Lower(name)

NoAlternative == [name |-> NoneLp, domain_name |-> NoneLp]

\* Alternative.query.get(domain_name)
AlternativeGet(domain_name) ==
    IF \E r \in alternatives : r.name = IdnaBind(domain_name)
    THEN CHOOSE r \in alternatives : r.name = IdnaBind(domain_name)
    ELSE NoAlternative

\* the pair resolve_domain returns
ResolveDomainResult(email) ==
    LET alternative == AlternativeGet(SplitDomain(email))
    IN  [localpart |-> SplitLocalpart(email),
         domain_name |-> IF alternative # NoAlternative
                         THEN alternative.domain_name
                         ELSE SplitDomain(email)]

\* the addresses whose domain part is a name the store accepts as a key
ValidAddresses == {e \in RawAddresses : SplitDomain(e) # <<>>}

ResolveDomain(email) ==
    /\ call = NoCall
    /\ call' = [fn |-> "resolve_domain", email |-> email]
    /\ result' = ResolveDomainResult(email)
    /\ UNCHANGED <<aliases, users, userTable, alternatives, items, keyVars>>

\* names as the store holds them: lower case, IDNA encoded
DomainNames == {n \in UNION {[1..k -> AddrChars \ {"@"}] : k \in 1..MaxNameLen} : n = Lower(n)}

RECURSIVE AlternativeTablesUpTo(_)
AlternativeTablesUpTo(n) ==
    IF n = 0 THEN {{}}
    ELSE LET P == AlternativeTablesUpTo(n - 1)
         IN  P \cup {T \cup {[name |-> a, domain_name |-> d]} :
                        T \in P, a \in DomainNames, d \in DomainNames}

\* name is the primary key
AlternativeTables ==
    {T \in AlternativeTablesUpTo(MaxAlternatives) :
        \A r \in T, q \in T : r.name = q.name => r = q}

(***************************************************************************)
(* MailuConfig.MailuCollection.  An object has an identity and is or is    *)
(* not an instance of the model of the collection; the collection holds    *)
(* instances under their identity.                                         *)
(***************************************************************************)
Ids == 1..MaxIds
Objects == [identity : Ids, instance : BOOLEAN]

\* key in self._items
Present(ident) == \E o \in items : o.identity = ident

\* sequences of at most n elements of S
SeqsUpTo(S, n) == UNION {[1..k -> S] : k \in 0..n}

\* the (key, item) pairs update is given
PairLists == SeqsUpTo(Ids \X Objects, MaxItems)

\* the checks of update on one pair: the error raised, if any
UpdateCheck(pair) ==
    IF ~pair[2].instance THEN "TypeError"
    ELSE IF pair[1] # pair[2].identity THEN "ValueError"
    ELSE IF Present(pair[1]) THEN "ValueError"
    ELSE "none"

\* the error of the first pair that fails a check
Raised(checks) ==
    IF \A i \in 1..Len(checks) : checks[i] = "none" THEN "none"
    ELSE checks[CHOOSE i \in 1..Len(checks) :
                   checks[i] # "none" /\ \A j \in 1..(i - 1) : checks[j] = "none"]

\* self._items after update: the loop only checks
ItemsAfterUpdate(pairs) == items

Update(pairs) ==
    /\ call = NoCall
    /\ call' = [fn |-> "update", items |-> pairs]
    /\ result' = [raised |-> Raised([i \in 1..Len(pairs) |-> UpdateCheck(pairs[i])])]
    /\ items' = ItemsAfterUpdate(pairs)
    /\ UNCHANGED <<aliases, users, userTable, alternatives, keyVars>>

\* the checks of extend on one item
ExtendCheck(item) ==
    IF ~item.instance THEN "TypeError"
    ELSE IF Present(item.identity) THEN "ValueError"
    ELSE "none"

\* add[key] = item: a later item replaces an earlier one of the same identity
Extend(list) ==
    /\ call = NoCall
    /\ call' = [fn |-> "extend", list |-> list]
    /\ LET raised == Raised([i \in 1..Len(list) |-> ExtendCheck(list[i])])
       IN  /\ result' = [raised |-> raised]
           /\ items' = IF raised = "none"
                       THEN items \cup {list[i] : i \in 1..Len(list)}
                       ELSE items
    /\ UNCHANGED <<aliases, users, userTable, alternatives, keyVars>>

\* the collections of instances, one per identity at most
Collections == {{[identity |-> i, instance |-> TRUE] : i \in I} : I \in SUBSET Ids}

(***************************************************************************)
(* Store contents of the resolution specification: up to MaxAliases        *)
(* aliases and one user, all of domain 1.                                  *)
(***************************************************************************)
AliasRow(lp, w) ==
    [localpart |-> lp, domain_name |-> 1, wildcard |-> w, destination |-> <<Addr(lp, 0)>>]

UserRow(lp) ==
    [localpart |-> lp, domain_name |-> 1, forward_enabled |-> FALSE,
     forward_keep |-> TRUE, forward_destination |-> <<>>]

RECURSIVE SetsUpTo(_, _)
SetsUpTo(U, n) ==
    IF n = 0 THEN {{}}
    ELSE LET P == SetsUpTo(U, n - 1) IN P \cup {p \cup {x} : p \in P, x \in U}

\* email is the primary key: no two rows with the same localpart and domain
AliasTables ==
    {T \in SetsUpTo({AliasRow(lp, w) : lp \in Localparts, w \in BOOLEAN}, MaxAliases) :
        \A a \in T, b \in T : a.localpart = b.localpart => a = b}

UserTables ==
    {{}} \cup {{UserRow(lp)} : lp \in {l \in Localparts : Len(l) <= MaxUserLen}}

\* the addresses users forward to, outside the served domains
ForwardTargets == {Addr(<<"a">>, 0), Addr(<<"A">>, 0)}

\* forwarding lists without repetition, in either order
ForwardLists ==
    ({<<>>} \cup {<<m>> : m \in ForwardTargets}
            \cup {<<m, n>> : m \in ForwardTargets, n \in ForwardTargets})
        \ {<<m, m>> : m \in ForwardTargets}

ForwardUserRow(lp, enabled, keep, dest) ==
    [localpart |-> lp, domain_name |-> 1, forward_enabled |-> enabled,
     forward_keep |-> keep, forward_destination |-> dest]

\* one user at most, with any forwarding settings
ForwardUserTables ==
    {{}} \cup {{ForwardUserRow(lp, e, k, dest)} :
                 lp \in {l \in Localparts : Len(l) <= MaxUserLen},
                 e \in BOOLEAN, k \in BOOLEAN, dest \in ForwardLists}

\* one alias at most
ForwardAliasTables ==
    {{}} \cup {{AliasRow(lp, w)} :
                 lp \in {l \in Localparts : Len(l) <= MaxUserLen}, w \in BOOLEAN}

ResIdle ==
    /\ aliases = {}
    /\ users = {}
    /\ userTable = {}
    /\ alternatives = {}
    /\ items = {}
    /\ call = NoCall
    /\ result = ReturnNone

ResInit ==
    /\ aliases \in AliasTables
    /\ users \in UserTables
    /\ userTable = users
    /\ alternatives = {}
    /\ items = {}
    /\ call = NoCall
    /\ result = ReturnNone

ResNext ==
    \/ \E lp \in Localparts, dom \in Domains : Resolve(lp, dom)
    \/ \E lp \in Localparts, dom \in Domains, ign \in BOOLEAN :
          ResolveDestination(lp, dom, ign)
    \/ Return

(***************************************************************************)
(* Specification of the key lifecycle: one session working on the domains. *)
(***************************************************************************)
KeyInit(w) ==
    /\ window = w
    /\ file \in [Domains -> {NoFile, Empty} \cup Keys]
    /\ key = [s \in Sessions |-> [d \in Domains |-> None]]
    /\ changed = [s \in Sessions |-> [d \in Domains |-> FALSE]]
    /\ hist = [s \in Sessions |-> <<>>]
    /\ io = {}
    /\ failed = [s \in Sessions |-> {}]
    \* no history is kept when window is 0
    /\ committed = [d \in Domains |-> IF w = 0 THEN Empty ELSE Persisted(d)]
    /\ ResIdle

KeyNext(S, D) ==
    \E s \in S :
        \/ \E d \in D : GetKey(s, d)
        \/ \E d \in D, v \in Keys \cup {None, Empty} : SetKey(s, d, v)
        \/ \E d \in D, k \in Keys : GenerateKey(s, d, k)
        \/ Commit(s)
        \/ \E f \in D : CommitIOError(s, f)

vars == <<keyVars, resVars>>

\* one session working on every domain
Init == KeyInit(0)

Next == KeyNext({1}, Domains)

Spec == Init /\ [][Next]_vars

\* one session, one domain, the last three operations remembered
SeqInit == KeyInit(3)

SeqNext == KeyNext({1}, {1})

SpecSeq == SeqInit /\ [][SeqNext]_vars

\* two sessions working on one domain, their commits one at a time and every
\* file operation succeeding; the last operation of each session remembered
TwoInit == KeyInit(1)

TwoNext ==
    \E s \in Sessions :
        \/ GetKey(s, 1)
        \/ \E v \in Keys \cup {None, Empty} : SetKey(s, 1, v)
        \/ \E k \in Keys : GenerateKey(s, 1, k)
        \/ Commit(s)

SpecTwo == TwoInit /\ [][TwoNext]_vars

\* the resolution engine working on a store
ResolveInit ==
    /\ ResInit
    /\ window = 0
    /\ file = [d \in Domains |-> NoFile]
    /\ key = [s \in Sessions |-> [d \in Domains |-> None]]
    /\ changed = [s \in Sessions |-> [d \in Domains |-> FALSE]]
    /\ hist = [s \in Sessions |-> <<>>]
    /\ io = {}
    /\ failed = [s \in Sessions |-> {}]
    /\ committed = [d \in Domains |-> Empty]

ResolveNext == ResNext

\* the resolution engine working on a store with a forwarding user
ForwardInit ==
    /\ aliases \in ForwardAliasTables
    /\ users \in ForwardUserTables
    /\ userTable = users
    /\ alternatives = {}
    /\ items = {}
    /\ call = NoCall
    /\ result = ReturnNone
    /\ window = 0
    /\ file = [d \in Domains |-> NoFile]
    /\ key = [s \in Sessions |-> [d \in Domains |-> None]]
    /\ changed = [s \in Sessions |-> [d \in Domains |-> FALSE]]
    /\ hist = [s \in Sessions |-> <<>>]
    /\ io = {}
    /\ failed = [s \in Sessions |-> {}]
    /\ committed = [d \in Domains |-> Empty]

ForwardNext == ResNext

\* resolve_domain working on a table of alternatives
DomainInit ==
    /\ alternatives \in AlternativeTables
    /\ items = {}
    /\ aliases = {}
    /\ users = {}
    /\ userTable = {}
    /\ call = NoCall
    /\ result = ReturnNone
    /\ window = 0
    /\ file = [d \in Domains |-> NoFile]
    /\ key = [s \in Sessions |-> [d \in Domains |-> None]]
    /\ changed = [s \in Sessions |-> [d \in Domains |-> FALSE]]
    /\ hist = [s \in Sessions |-> <<>>]
    /\ io = {}
    /\ failed = [s \in Sessions |-> {}]
    /\ committed = [d \in Domains |-> Empty]

DomainNext ==
    \/ \E email \in ValidAddresses : ResolveDomain(email)
    \/ Return

SpecDomain == DomainInit /\ [][DomainNext]_vars

\* a collection of the configuration being updated and extended
CollectionInit ==
    /\ items \in Collections
    /\ alternatives = {}
    /\ aliases = {}
    /\ users = {}
    /\ userTable = {}
    /\ call = NoCall
    /\ result = ReturnNone
    /\ window = 0
    /\ file = [d \in Domains |-> NoFile]
    /\ key = [s \in Sessions |-> [d \in Domains |-> None]]
    /\ changed = [s \in Sessions |-> [d \in Domains |-> FALSE]]
    /\ hist = [s \in Sessions |-> <<>>]
    /\ io = {}
    /\ failed = [s \in Sessions |-> {}]
    /\ committed = [d \in Domains |-> Empty]

CollectionNext ==
    \/ \E pairs \in PairLists : Update(pairs)
    \/ \E list \in SeqsUpTo(Objects, MaxItems) : Extend(list)
    \/ Return

SpecCollection == CollectionInit /\ [][CollectionNext]_vars

SpecForward == ForwardInit /\ [][ForwardNext]_vars

SpecResolve == ResolveInit /\ [][ResolveNext]_vars

(***************************************************************************)
(* Properties of the key lifecycle.                                        *)
(***************************************************************************)
\* the step is a run of the commit handler of session s
CommitStep(s) ==
    \/ Commit(s)
    \/ \E f \in Domains : CommitIOError(s, f)

\* the two latest operations of session s were a and then b
LastTwo(s, a, b) ==
    /\ Len(hist[s]) >= 2
    /\ hist[s][Len(hist[s]) - 1] = a
    /\ hist[s][Len(hist[s])] = b

\* C1: setKey(d, K); setKey(d, K); commit, with K non-empty and different from
\* the persisted key, writes K to the key file of d exactly once and leaves
\* the dirty flag of d false.
C1_SameKeyTwiceThenCommit ==
    [][\A s \in Sessions, d \in Domains, k \in Keys :
         (/\ LastTwo(s, Op("setKey", d, k), Op("setKey", d, k))
          /\ file[d] # k
          /\ Commit(s))
         => (/\ file'[d] = k
             /\ {r \in io' : r.d = d} = {[s |-> s, d |-> d, kind |-> "write", ok |-> TRUE]}
             /\ ~changed'[s][d])]_vars

\* C2: the commit handler clears the dirty flag of every domain it handled,
\* and a commit that directly follows another commit of the session (no key
\* assignment in between) writes and deletes nothing.
C2_CommitClearsDirty ==
    [][\A s \in Sessions :
         Commit(s) =>
            /\ \A d \in Domains : ~changed'[s][d]
            /\ (Len(hist[s]) >= 1 /\ Last(hist[s]).op = "commit") => io' = {}]_vars

\* C3: a commit whose file operations all succeed leaves, for every dirty
\* domain of the session, the key file holding exactly the held key when that
\* key is non-empty and no key file when it is empty or absent; the key files
\* of the domains that are not dirty are unchanged.
C3_CommitFlushesDirtyDomains ==
    [][\A s \in Sessions :
         Commit(s) =>
            \A d \in Domains :
               IF changed[s][d]
               THEN IF key[s][d] \in Keys
                    THEN file'[d] = key[s][d]
                    ELSE file'[d] = NoFile
               ELSE file'[d] = file[d]]_vars

\* C3 witness: a commit has just written the key of a dirty domain and left
\* alone the existing key file of a domain that is not dirty.
C3_Witness ==
    \E d1 \in Domains, d2 \in Domains :
        /\ [s |-> 1, d |-> d1, kind |-> "write", ok |-> TRUE] \in io
        /\ file[d1] = key[1][d1]
        /\ ~changed[1][d2]
        /\ file[d2] \in Keys
        /\ \A r \in io : r.ok /\ r.d # d2

\* C4: once the key of a domain is loaded, its dirty flag is true iff the held
\* key differs from the value read from or last written to the file store
\* (with one session and no failed write, the content of the key file).
C4_DirtyIffDiffersFromStore ==
    \A s \in Sessions, d \in Domains :
        (key[s][d] # None /\ \A r \in io : r.ok)
            => (changed[s][d] <=> key[s][d] # Persisted(d))

\* C5: after setKey(d, K) with a non-empty K, setKey(d, absent) and a commit
\* without I/O error, the key file of d does not exist, whatever it held.
C5_SetThenClearThenCommit ==
    \A s \in Sessions, d \in Domains, k \in Keys, a \in {None, Empty} :
        hist[s] = <<Op("setKey", d, k), Op("setKey", d, a), Op("commit", 0, 0)>>
            => file[d] = NoFile

\* C5 witness: the sequence has run on a domain whose key file existed, and
\* the commit has unlinked it.
C5_Witness ==
    \E d \in Domains, k \in Keys :
        /\ hist[1] = <<Op("setKey", d, k), Op("setKey", d, None), Op("commit", 0, 0)>>
        /\ [s |-> 1, d |-> d, kind |-> "unlink", ok |-> TRUE] \in io
        /\ file[d] = NoFile

IsDestinationCall(lp, dom) ==
    call.fn = "resolve_destination" /\ call.localpart = lp /\ call.domain_name = dom

\* no User exists for lp@dom nor for the delimiter-stripped form of lp
NoUserFor(lp, dom) ==
    /\ UserGet(lp, dom) = NoUser
    /\ HasDelimiter(lp) => UserGet(RSplitHead(lp), dom) = NoUser

\* the aliases one search of matchAlias selects from: non-wildcard aliases
\* whose localpart equals lp, wildcard aliases whose pattern lp matches, both
\* compared as they are or (fold) in lower case
MatchRows(lp, dom, fold) ==
    {a \in aliases :
        /\ a.domain_name = dom
        /\ lp # NoneLp
        /\ LET l == IF fold THEN Lower(lp) ELSE lp
               p == IF fold THEN Lower(a.localpart) ELSE a.localpart
           IN  IF a.wildcard THEN Like(l, p) ELSE l = p}

\* matchAlias as the specification states it: the merge of the best candidate
\* (non-wildcard first, then the longest pattern) of either search
MatchAlias(lp, dom) ==
    {MergeAliases(p, l) : p \in First(MatchRows(lp, dom, FALSE)),
                          l \in First(MatchRows(lp, dom, TRUE))}

\* C7: with no User for the address, a non-wildcard alias whose localpart
\* equals the queried localpart decides resolveDestination, whatever wildcard
\* aliases match.
C7_ExactAliasWinsOverWildcard ==
    \A lp \in Localparts, dom \in Domains, a \in aliases :
        (/\ IsDestinationCall(lp, dom)
         /\ NoUserFor(lp, dom)
         /\ ~a.wildcard /\ a.localpart = lp /\ a.domain_name = dom)
            => result = ReturnDest(a.destination)

\* C8: for a localpart containing the delimiter (and no User of that very
\* address), a non-wildcard alias for exactly localpart@domain decides
\* resolveDestination, whatever User or Alias exists for the stripped localpart.
C8_ExactAliasWinsOverStripped ==
    \A lp \in Localparts, dom \in Domains, a \in aliases :
        (/\ IsDestinationCall(lp, dom)
         /\ HasDelimiter(lp)
         /\ UserGet(lp, dom) = NoUser
         /\ ~a.wildcard /\ a.localpart = lp /\ a.domain_name = dom)
            => result = ReturnDest(a.destination)

\* C9: delimiter in the localpart, no User for either form and no non-wildcard
\* alias matching the full localpart: the result is the destination of the
\* alias S matched for the stripped localpart when there is one, else that of
\* the wildcard alias matched for the full localpart, else none.
C9_StrippedAliasBeforeWildcard ==
    \A lp \in Localparts, dom \in Domains :
        (/\ IsDestinationCall(lp, dom)
         /\ HasDelimiter(lp)
         /\ NoUserFor(lp, dom)
         /\ \A P \in MatchAlias(lp, dom) : P = NoAlias \/ P.wildcard)
            => \E P \in MatchAlias(lp, dom), S \in MatchAlias(RSplitHead(lp), dom) :
                  result = IF S # NoAlias THEN ReturnDest(S.destination)
                           ELSE IF P # NoAlias THEN ReturnDest(P.destination)
                           ELSE ReturnNone

\* C10: Alias.resolve returns what matchAlias specifies: the merge of the
\* case-preserving and the case-folded search.
C10_ResolveIsMergedSearch ==
    \A lp \in Localparts, dom \in Domains :
        (call.fn = "Alias.resolve" /\ call.localpart = lp /\ call.domain_name = dom)
            => \E m \in MatchAlias(lp, dom) : result = ReturnAlias(m)

\* the row of table user for the User that resolve_destination finds for
\* lp@dom or, failing that, for the delimiter-stripped address
ConfiguredUser(lp, dom) ==
    LET user == FindUser(lp, dom)
    IN  CHOOSE u \in userTable :
            u.localpart = user.localpart /\ u.domain_name = user.domain_name

\* C11: when a User is found for the address (or for the stripped address),
\* resolveDestination returns [localpart@domain] with forwarding disabled and,
\* with forwarding enabled, the forwarding destinations of the User followed
\* by localpart@domain iff keep is set or ignoreForwardKeep is true, whatever
\* aliases exist.
C11_UserDestination ==
    \A lp \in Localparts, dom \in Domains, ign \in BOOLEAN :
        (/\ IsDestinationCall(lp, dom)
         /\ call.ignore_forward_keep = ign
         /\ FindUser(lp, dom) # NoUser)
            => LET u == ConfiguredUser(lp, dom)
               IN  result = ReturnDest(
                      IF ~u.forward_enabled THEN <<Addr(lp, dom)>>
                      ELSE IF u.forward_keep \/ ign
                           THEN Append(u.forward_destination, Addr(lp, dom))
                           ELSE u.forward_destination)

\* C14: resolveDestination is a pure read: a call leaves the forwarding list
\* of every User and all other store content unchanged, and the same call
\* made again right after it returns an equal destination list.
C14_ResolveDestinationIsPureRead ==
    [][\A lp \in Localparts, dom \in Domains, ign \in BOOLEAN :
         ResolveDestination(lp, dom, ign)
            => /\ users' = users
               /\ aliases' = aliases
               /\ userTable' = userTable
               /\ FindUser(lp, dom) # NoUser
                    => result' = (ReturnDest(UserDestination(FindUser(lp, dom),
                                                            lp, dom, ign)))']_vars

\* the call whose result the state holds is resolve_domain(email)
IsDomainCall(email) == call.fn = "resolve_domain" /\ call.email = email

\* the alternatives named by domain, names being case-insensitive
NamedBy(domain) == {r \in alternatives : r.name = Lower(domain)}

\* the target of the Alternative named by domain, or domain itself
Canonical(domain) ==
    IF NamedBy(domain) = {} THEN {domain} ELSE {r.domain_name : r \in NamedBy(domain)}

\* C12: resolveDomain splits the address at its last "@" and returns the
\* localpart (absent when there is no "@", the whole address being the
\* domain) and the target domain of the Alternative named by the domain part,
\* or the domain part unchanged when there is no such Alternative.
C12_ResolveDomain ==
    call.fn = "resolve_domain" =>
        LET email == call.email
        IN  IF HasAt(email)
            THEN \E i \in 1..Len(email) :
                    /\ email[i] = "@"
                    /\ \A j \in (i + 1)..Len(email) : email[j] # "@"
                    /\ result.localpart = SubSeq(email, 1, i - 1)
                    /\ result.domain_name \in Canonical(SubSeq(email, i + 1, Len(email)))
            ELSE /\ result.localpart = NoneLp
                 /\ result.domain_name \in Canonical(email)

\* C12 witness: an address with two "@" and an upper-case domain part has
\* been resolved to the target of the Alternative of that name.
C12_Witness ==
    \E r \in alternatives :
        /\ IsDomainCall(<<"@", "@", "A">>)
        /\ r.name = <<"a">>
        /\ r.domain_name = <<"b">>
        /\ result = [localpart |-> <<"@">>, domain_name |-> <<"b">>]

\* C13: with the commits of the sessions serialized, after any interleaving
\* of key assignments and commits the key file of a domain holds the key of
\* the most recently committed key assignment (no file for an absent key).
C13_FileHoldsLatestCommittedKey ==
    \A d \in Domains : Persisted(d) = committed[d]

\* C15: when update(items) returns without raising, every (key, item) pair
\* passed in is in the collection afterwards; when it raises, the collection
\* is unchanged.
C15_UpdateStoresItems ==
    [][\A pairs \in PairLists :
         Update(pairs) =>
            IF result'.raised = "none"
            THEN \A i \in 1..Len(pairs) :
                    \E o \in items' : o.identity = pairs[i][1] /\ o = pairs[i][2]
            ELSE items' = items]_vars

====
